---- MODULE Spec2Model ----
(***************************************************************************)
(* gomodbus: the command-line Modbus client of src/main.go.                *)
(*                                                                         *)
(* One run of the program is modelled: parseArgs (one step per iteration   *)
(* of its token loop), validateConfig, setupClient, connect, execute (the  *)
(* write operation or the poll loop) and the deferred Close.  The Modbus   *)
(* client library is an external collaborator: each of its calls is        *)
(* recorded in `calls` and may succeed or fail.                            *)
(*                                                                         *)
(* os.Args[1:] is the program's input.  Only len(args) is fixed at the     *)
(* start (nargs); a token is drawn from Tokens when the parser first reads *)
(* it, and tokens below index i are never read again.  `rest` holds the    *)
(* tokens from index i on that were read without i moving past them.       *)
(*                                                                         *)
(* Durations are in milliseconds.  A float64 obtained from ParseFloat is   *)
(* kept in thousandths (ParseFloat("0.01") is 10, ParseFloat("2") is 2000).*)
(***************************************************************************)
EXTENDS Integers, Sequences, FiniteSets, TLC

VARIABLES
    nargs,      \* len(args), args == os.Args[1:]
    i,          \* parseArgs: index of the next token
    rest,       \* tokens args[i..] already read while i stayed
    config,     \* the Config record built by parseArgs (m.config after it)
    pc,         \* position of the run
    err,        \* the error the run returned ("" is nil)
    client,     \* m.client: the ClientConfiguration it was created from
    calls,      \* the calls made on m.client (and the sleeps), in order:
                \* [fn, args, ok], ok the call's success
    out         \* the lines printed on standard output, in order

vars == <<nargs, i, rest, config, pc, err, client, calls, out>>

----------------------------------------------------------------------------
(* Bounds of the model. *)

\* longest token list
MaxArgs == 4

\* most reads of the poll loop that are followed
MaxPolls == 2

\* most write values of a directly supplied Config
MaxVals == 4

----------------------------------------------------------------------------
(* The token alphabet. *)

\* Every token may stand wherever the parser reads one, but for the target:
\* the first bare token of a list is one of TargetTokens.

OptionTokens == {"-m", "-a", "-r", "-c", "-t", "-0", "-B", "-1", "-l", "-o",
                 "-p", "-b", "-d", "-s", "-P", "-v", "-h", "-V", "--", "-x"}

\* tokens strconv.Atoi accepts ("-1" is also the flag)
IntTokens == {"-1", "0", "1", "2", "7", "126", "1199", "1200"}

\* tokens only strconv.ParseFloat accepts
DecimalTokens == {"0.01"}

FloatTokens == IntTokens \cup DecimalTokens

WordTokens == {"udp", "rtu", "3:int", "3:float", "4:hex", "4:int", "4:float",
               "none", "2,7", "host"}

TargetTokens == {"host"}

Tokens == OptionTokens \cup FloatTokens \cup WordTokens

\* the modes setupClient knows
Modes == {"tcp", "tls", "udp", "rtu", "rtuovertcp", "rtuoverudp"}

NoClient == [url |-> <<>>, Speed |-> 0, DataBits |-> 0, StopBits |-> 0, Timeout |-> 0]

----------------------------------------------------------------------------
(* Library functions parseArgs uses, on the token alphabet. *)

\* strconv.Atoi: the value and whether it failed
Atoi(s) ==
    CASE s = "-1"   -> [val |-> -1, err |-> FALSE]
      [] s = "0"    -> [val |-> 0, err |-> FALSE]
      [] s = "1"    -> [val |-> 1, err |-> FALSE]
      [] s = "2"    -> [val |-> 2, err |-> FALSE]
      [] s = "7"    -> [val |-> 7, err |-> FALSE]
      [] s = "126"  -> [val |-> 126, err |-> FALSE]
      [] s = "1199" -> [val |-> 1199, err |-> FALSE]
      [] s = "1200" -> [val |-> 1200, err |-> FALSE]
      [] OTHER      -> [val |-> 0, err |-> TRUE]

\* strconv.ParseFloat(s, 64): the value in thousandths and whether it failed
ParseFloat(s) ==
    IF s = "0.01" THEN [val |-> 10, err |-> FALSE]
    ELSE [val |-> Atoi(s).val * 1000, err |-> Atoi(s).err]

\* strings.HasPrefix(arg, "-")
HasPrefixDash(s) == s \in OptionTokens

\* strings.Contains(s, ",") || strings.Contains(s, ":")
ContainsCommaOrColon(s) == s \in {"2,7", "3:int", "3:float", "4:hex", "4:int", "4:float"}

\* strings.Split(s, ",")[0]
FirstPart(s) == IF s = "2,7" THEN "2" ELSE s

----------------------------------------------------------------------------
(* parseArgs. *)

\* the defaults parseArgs starts from
DefaultConfig ==
    [Mode |-> "tcp", Host |-> "", Port |-> 502, Device |-> "",
     Baudrate |-> 19200, Databits |-> 8, Stopbits |-> 1, Parity |-> "even",
     Timeout |-> 1000, SlaveID |-> 1, StartRef |-> 1, Count |-> 1,
     DataType |-> "4", ZeroBased |-> FALSE, BigEndian |-> TRUE,
     PollOnce |-> FALSE, PollRate |-> 1000, Verbose |-> FALSE,
     WriteValues |-> <<>>]

\* the options that take a value
ValuedOptions == {"-m", "--mode", "-a", "--address", "-r", "--reference",
                  "-c", "--count", "-t", "--type", "-l", "--poll-rate",
                  "-o", "--timeout", "-p", "--port", "-b", "--baudrate",
                  "-d", "--databits", "-s", "--stopbits", "-P", "--parity"}

\* the flags
FlagOptions == {"-0", "--zero-based", "-B", "--big-endian", "-1", "--once",
                "-v", "--verbose"}

\* -h and -V: print and os.Exit(0)
ExitOptions == {"-h", "--help", "-V", "--version"}

\* the case of a valued option: the new Config, or the error returned
SetOption(c, arg, val) ==
    LET n == Atoi(val)
        a == Atoi(IF ContainsCommaOrColon(val) THEN FirstPart(val) ELSE val)
        f == ParseFloat(val)
        Ok(d) == [config |-> d, err |-> ""]
        Bad(msg) == [config |-> c, err |-> msg]
    IN CASE arg \in {"-m", "--mode"} -> Ok([c EXCEPT !.Mode = val])
         [] arg \in {"-a", "--address"} ->
              IF a.err THEN Bad("invalid slave address")
              ELSE Ok([c EXCEPT !.SlaveID = a.val])
         [] arg \in {"-r", "--reference"} ->
              IF n.err THEN Bad("invalid reference")
              ELSE Ok([c EXCEPT !.StartRef = n.val])
         [] arg \in {"-c", "--count"} ->
              IF n.err THEN Bad("invalid count")
              ELSE Ok([c EXCEPT !.Count = n.val])
         [] arg \in {"-t", "--type"} -> Ok([c EXCEPT !.DataType = val])
         [] arg \in {"-l", "--poll-rate"} ->
              IF n.err THEN Bad("invalid poll rate")
              ELSE Ok([c EXCEPT !.PollRate = n.val])
         [] arg \in {"-o", "--timeout"} ->
              IF f.err THEN Bad("invalid timeout")
              ELSE Ok([c EXCEPT !.Timeout = f.val])
         [] arg \in {"-p", "--port"} ->
              IF n.err THEN Bad("invalid port")
              ELSE Ok([c EXCEPT !.Port = n.val])
         [] arg \in {"-b", "--baudrate"} ->
              IF n.err THEN Bad("invalid baudrate")
              ELSE Ok([c EXCEPT !.Baudrate = n.val])
         [] arg \in {"-d", "--databits"} ->
              IF n.err THEN Bad("invalid databits")
              ELSE Ok([c EXCEPT !.Databits = n.val])
         [] arg \in {"-s", "--stopbits"} ->
              IF n.err THEN Bad("invalid stopbits")
              ELSE Ok([c EXCEPT !.Stopbits = n.val])
         [] arg \in {"-P", "--parity"} -> Ok([c EXCEPT !.Parity = val])

\* SetFlag whose -B clears BigEndian
SetFlagClearing(c, arg) ==
    CASE arg \in {"-0", "--zero-based"} -> [c EXCEPT !.ZeroBased = TRUE]
      [] arg \in {"-B", "--big-endian"} -> [c EXCEPT !.BigEndian = FALSE]
      [] arg \in {"-1", "--once"}       -> [c EXCEPT !.PollOnce = TRUE]
      [] arg \in {"-v", "--verbose"}    -> [c EXCEPT !.Verbose = TRUE]

\* the case of a flag
SetFlag(c, arg) ==
    CASE arg \in {"-0", "--zero-based"} -> [c EXCEPT !.ZeroBased = TRUE]
      [] arg \in {"-B", "--big-endian"} -> [c EXCEPT !.BigEndian = TRUE]
      [] arg \in {"-1", "--once"}       -> [c EXCEPT !.PollOnce = TRUE]
      [] arg \in {"-v", "--verbose"}    -> [c EXCEPT !.Verbose = TRUE]

\* the first bare token: Host or Device
BindTarget(c, arg) ==
    IF c.Mode = "tcp" THEN [c EXCEPT !.Host = arg]
    ELSE [c EXCEPT !.Device = arg]

\* the values of a list of tokens ParseFloat accepts
FloatValues(toks) == [k \in 1..Len(toks) |-> ParseFloat(toks[k]).val]

\* the token lists a write-value loop over n tokens can read: n tokens
\* ParseFloat accepts, or fewer of them followed by one it rejects
ReadRuns(n) ==
    UNION {[1..k -> FloatTokens] : k \in 0..n}

\* validateConfig with the upper limit of Count off by one
validateConfigLax(c) ==
    IF c.Count < 1 \/ c.Count > 126 THEN "count must be between 1 and 125"
    ELSE IF c.SlaveID < 0 \/ c.SlaveID > 255
         THEN "slave address must be between 0 and 255"
    ELSE IF c.Baudrate < 1200 \/ c.Baudrate > 921600
         THEN "baudrate must be between 1200 and 921600"
    ELSE IF c.Databits # 7 /\ c.Databits # 8 THEN "databits must be 7 or 8"
    ELSE IF c.Stopbits # 1 /\ c.Stopbits # 2 THEN "stopbits must be 1 or 2"
    ELSE IF c.Parity \notin {"none", "even", "odd"}
         THEN "parity must be none, even, or odd"
    ELSE IF c.PollRate < 10 THEN "poll rate must be at least 10ms"
    ELSE IF c.Timeout < 10 \/ c.Timeout > 10000
         THEN "timeout must be between 0.01 and 10.00 seconds"
    ELSE ""

\* validateConfig: the error returned ("" is nil)
validateConfig(c) ==
    IF c.Count < 1 \/ c.Count > 125 THEN "count must be between 1 and 125"
    ELSE IF c.SlaveID < 0 \/ c.SlaveID > 255
         THEN "slave address must be between 0 and 255"
    ELSE IF c.Baudrate < 1200 \/ c.Baudrate > 921600
         THEN "baudrate must be between 1200 and 921600"
    ELSE IF c.Databits # 7 /\ c.Databits # 8 THEN "databits must be 7 or 8"
    ELSE IF c.Stopbits # 1 /\ c.Stopbits # 2 THEN "stopbits must be 1 or 2"
    ELSE IF c.Parity \notin {"none", "even", "odd"}
         THEN "parity must be none, even, or odd"
    ELSE IF c.PollRate < 10 THEN "poll rate must be at least 10ms"
    ELSE IF c.Timeout < 10 \/ c.Timeout > 10000
         THEN "timeout must be between 0.01 and 10.00 seconds"
    ELSE ""

\* a nil *Config
NilConfig == [nil |-> TRUE]

\* parseArgs returns (nil, error): run returns the error
ParseFail(msg) ==
    /\ pc' = "done"
    /\ err' = msg
    /\ rest' = <<>>
    /\ config' = NilConfig
    /\ UNCHANGED <<nargs, i, client, calls, out>>

\* the switch is left with a new Config and index
ParseGoOn(c, j, r) ==
    /\ config' = c
    /\ i' = j
    /\ rest' = r
    /\ UNCHANGED <<nargs, pc, err, client, calls, out>>

\* case "--" of the default branch: every later token is a write value; the
\* break leaves the switch, and i is as it was
Separator(arg) ==
    \E run \in (IF rest # <<>> THEN {Tail(rest)} ELSE ReadRuns(nargs - i - 1)) :
        IF Len(run) = nargs - i - 1
        THEN ParseGoOn([config EXCEPT !.WriteValues = FloatValues(run)],
                       i, <<arg>> \o run)
        ELSE ParseFail("invalid write value")

\* a bare token: the target, or the first of the write values, which run to
\* the end of the list
Positional(arg) ==
    IF config.Host = "" /\ config.Device = ""
    THEN ParseGoOn(BindTarget(config, arg), i + 1, <<>>)
    ELSE IF Len(config.WriteValues) = 0
    THEN IF ParseFloat(arg).err
         THEN ParseFail("invalid write value")
         ELSE \E run \in ReadRuns(nargs - i - 1) :
                 IF Len(run) = nargs - i - 1
                 THEN ParseGoOn([config EXCEPT
                                   !.WriteValues = FloatValues(<<arg>> \o run)],
                                nargs + 1, <<>>)
                 ELSE ParseFail("invalid write value")
    ELSE ParseGoOn(config, i + 1, <<>>)

\* the tokens the list may hold where the loop reads its next one
NextTokens(c) ==
    IF c.Host = "" /\ c.Device = "" THEN OptionTokens \cup TargetTokens
    ELSE Tokens

\* one iteration of the token loop of parseArgs
parseArgsStep ==
    /\ pc = "parseArgs"
    /\ i < nargs
    /\ \E arg \in (IF rest # <<>> THEN {rest[1]} ELSE NextTokens(config)) :
          CASE arg \in ValuedOptions ->
                 IF i + 1 >= nargs
                 THEN ParseFail("missing value")
                 ELSE \E val \in Tokens :
                         LET r == SetOption(config, arg, val)
                         IN IF r.err # "" THEN ParseFail(r.err)
                            ELSE ParseGoOn(r.config, i + 2, <<>>)
            [] arg \in FlagOptions -> ParseGoOn(SetFlag(config, arg), i + 1, <<>>)
            [] arg \in ExitOptions ->
                 /\ pc' = "exit"
                 /\ out' = Append(out, [kind |-> IF arg \in {"-h", "--help"}
                                                 THEN "help" ELSE "version"])
                 /\ UNCHANGED <<nargs, i, rest, config, err, client, calls>>
            [] OTHER ->
                 IF arg = "--" THEN Separator(arg)
                 ELSE IF HasPrefixDash(arg) THEN ParseFail("unknown option")
                 ELSE Positional(arg)

\* parseArgs after the loop: the target check and the validation
parseArgsReturn ==
    /\ pc = "parseArgs"
    /\ i >= nargs
    /\ IF config.Host = "" /\ config.Device = ""
       THEN ParseFail("device or host parameter missing")
       ELSE IF validateConfig(config) # ""
       THEN ParseFail(validateConfig(config))
       ELSE /\ pc' = "setupClient"
            /\ UNCHANGED <<nargs, i, rest, config, err, client, calls, out>>

----------------------------------------------------------------------------
(* Integer conversions and the wide-value codec. *)

\* uint16(n) of an int
U16(n) == n % 65536

\* a | b on unsigned 16-bit values
RECURSIVE BitOr(_, _)
BitOr(a, b) ==
    IF a = 0 THEN b
    ELSE IF b = 0 THEN a
    ELSE (IF a % 2 = 1 \/ b % 2 = 1 THEN 1 ELSE 0) + 2 * BitOr(a \div 2, b \div 2)

\* A 32-bit value is held as its two 16-bit words, [hi, lo].
\* uint32(n) of an int
U32(n) == [hi |-> (n \div 65536) % 65536, lo |-> n % 65536]

\* x << 16 on 32 bits
Shl16(x) == [hi |-> x.lo, lo |-> 0]

\* x | y on 32 bits
Or32(x, y) == [hi |-> BitOr(x.hi, y.hi), lo |-> BitOr(x.lo, y.lo)]

\* the number an int32 with the bit pattern p holds
Int32(p) ==
    IF p.hi >= 32768 THEN (p.hi - 65536) * 65536 + p.lo
    ELSE p.hi * 65536 + p.lo

\* the integer part of a float64 held in thousandths (towards zero)
Trunc(v) == IF v >= 0 THEN v \div 1000 ELSE -((-v) \div 1000)

\* uint16(f) of a float64: the value when it fits; otherwise the result
\* depends on the implementation (it wraps or it saturates)
FloatToUint16(v) ==
    LET t == Trunc(v)
    IN IF 0 <= t /\ t < 65536 THEN {t}
       ELSE {U16(t), IF t < 0 THEN 0 ELSE 65535}

\* uint32(f) of a float64, likewise
FloatToUint32(v) ==
    LET t == Trunc(v)
    IN IF 0 <= t THEN {U32(t)}
       ELSE {U32(t), U32(0)}

\* the lists that take their k-th element from the k-th set of `sets`
Choices(sets) ==
    {u \in [1..Len(sets) -> UNION {sets[k] : k \in 1..Len(sets)}] :
        \A k \in 1..Len(sets) : u[k] \in sets[k]}

\* CombineWrite with the branches of BigEndian exchanged
CombineWriteSwapped(high, low, bigEndian) ==
    IF bigEndian THEN Or32(Shl16(low), high)
    ELSE Or32(Shl16(high), low)

\* writeHoldingRegisters: the 32-bit pattern of one pair of converted values
CombineWrite(high, low, bigEndian) ==
    IF bigEndian THEN Or32(Shl16(high), low)
    ELSE Or32(Shl16(low), high)

\* writeHoldingRegisters: the patterns of all pairs of the converted values u
CombinePairs(u, bigEndian) ==
    [k \in 1..(Len(u) \div 2) |-> CombineWrite(u[2 * k - 1], u[2 * k], bigEndian)]

\* CombineRead that takes registers[i] as the high word in both orders
CombineReadOneOrder(r0, r1, bigEndian) ==
    Int32(Or32(Shl16(U32(r0)), U32(r1)))

\* printRegisters: the int32 printed for registers r0 (at i) and r1 (at i+1)
CombineRead(r0, r1, bigEndian) ==
    IF bigEndian THEN Int32(Or32(Shl16(U32(r0)), U32(r1)))
    ELSE Int32(Or32(Shl16(U32(r1)), U32(r0)))

\* printRegisters: the pattern of the float32 printed for r0 and r1
CombineReadBits(r0, r1, bigEndian) ==
    IF bigEndian THEN Or32(Shl16(U32(r0)), U32(r1))
    ELSE Or32(Shl16(U32(r1)), U32(r0))

\* math.Float32frombits: sign, exponent and fraction of the IEEE-754 value
Float32frombits(b) ==
    [sign |-> b.hi \div 32768, exp |-> (b.hi \div 128) % 256,
     frac |-> (b.hi % 128) * 65536 + b.lo]

\* printRegisters: the float32 printed for r0 and r1
CombineReadFloat(r0, r1, bigEndian) == Float32frombits(CombineReadBits(r0, r1, bigEndian))

----------------------------------------------------------------------------
(* setupClient, connect, execute. *)

\* fmt.Sprintf("%s://%s:%d", ...) and the ClientConfiguration of a mode; a
\* field the literal does not set holds the zero value (Parity is never set)
ClientConfiguration(c) ==
    CASE c.Mode \in {"tcp", "tls", "udp"} ->
           [url |-> <<c.Mode, c.Host, c.Port>>, Speed |-> 0, DataBits |-> 0,
            Parity |-> 0, StopBits |-> 0, Timeout |-> c.Timeout]
      [] c.Mode = "rtu" ->
           [url |-> <<"rtu", c.Device>>, Speed |-> c.Baudrate,
            DataBits |-> c.Databits, Parity |-> 0, StopBits |-> c.Stopbits,
            Timeout |-> c.Timeout]
      [] c.Mode \in {"rtuovertcp", "rtuoverudp"} ->
           [url |-> <<c.Mode, c.Host, c.Port>>, Speed |-> c.Baudrate,
            DataBits |-> 0, Parity |-> 0, StopBits |-> 0, Timeout |-> c.Timeout]

\* run returns e
Return(e) ==
    /\ pc' = "done"
    /\ err' = e

\* a call on m.client
Call(fn, args, ok) == [fn |-> fn, args |-> args, ok |-> ok]

setupClient ==
    /\ pc = "setupClient"
    /\ IF config.Mode \notin Modes
       THEN /\ Return("unsupported mode")
            /\ UNCHANGED client
       ELSE \E ok \in BOOLEAN :
               IF ok
               THEN /\ client' = ClientConfiguration(config)
                    /\ pc' = "connect"
                    /\ UNCHANGED err
               ELSE /\ Return("modbus.NewClient failed")
                    /\ UNCHANGED client
    /\ UNCHANGED <<nargs, i, rest, config, calls, out>>

\* the byte order connect selects
Endianness(c) == IF c.BigEndian THEN "BIG_ENDIAN" ELSE "LITTLE_ENDIAN"

\* the calls of connect after a successful Open
ConnectCalls(c) ==
    <<Call("Open", <<>>, TRUE),
      Call("SetUnitId", <<c.SlaveID % 256>>, TRUE),
      Call("SetEncoding", <<Endianness(c), "LOW_WORD_FIRST">>, TRUE)>>

connect ==
    /\ pc = "connect"
    /\ \E ok \in BOOLEAN :
          IF ok
          THEN /\ calls' = calls \o ConnectCalls(config)
               /\ pc' = "execute"
               /\ UNCHANGED err
          ELSE /\ calls' = Append(calls, Call("Open", <<>>, FALSE))
               /\ Return("failed to connect")
    /\ UNCHANGED <<nargs, i, rest, config, client, out>>

\* execute: the first address
startRef(c) == IF c.ZeroBased THEN 0 ELSE c.StartRef

\* boolToInt
boolToInt(b) == IF b THEN 1 ELSE 0

\* a printed line "[addr]: value" with its annotation (<<>> is none)
Line(addr, value, note) == [kind |-> "line", addr |-> addr, value |-> value, note |-> note]

\* performWriteOperation and writeCoils/writeHoldingRegisters: the error
\* returned before any call, or the write function, the value lists it may
\* carry, the error a failed call gives and the address step of the echo
\* lines; fn "" is no call
WriteRequest(c) ==
    LET n == Len(c.WriteValues)
        None(e) == [fn |-> "", vals |-> {}, err |-> e, step |-> 0]
    IN CASE c.DataType = "0" ->
              [fn |-> "WriteCoils",
               vals |-> {[k \in 1..n |-> c.WriteValues[k] # 0]},
               err |-> "failed to write coils", step |-> 1]
         [] c.DataType = "4" ->
              [fn |-> "WriteRegisters",
               vals |-> Choices([k \in 1..n |-> FloatToUint16(c.WriteValues[k])]),
               err |-> "failed to write holding registers", step |-> 1]
         [] c.DataType = "4:int" ->
              IF n % 2 # 0
              THEN None("32-bit integers require even number of values")
              ELSE [fn |-> "WriteUint32s",
                    vals |-> {CombinePairs(u, c.BigEndian) :
                                 u \in Choices([k \in 1..n |-> FloatToUint32(c.WriteValues[k])])},
                    err |-> "failed to write 32-bit integers", step |-> 2]
         [] c.DataType = "4:float" ->
              IF n % 2 # 0
              THEN None("32-bit floats require even number of values")
              ELSE [fn |-> "WriteFloat32s",
                    vals |-> {[k \in 1..(n \div 2) |->
                                  Float32frombits(CombinePairs(u, c.BigEndian)[k])] :
                                 u \in Choices([k \in 1..n |-> FloatToUint32(c.WriteValues[k])])},
                    err |-> "failed to write 32-bit floats", step |-> 2]
         [] c.DataType = "4:hex" -> None("")
         [] OTHER -> None("write operations not supported for data type")

\* the lines a successful write prints: the summary, then one per value
EchoLines(fn, start, step, vals) ==
    <<[kind |-> "summary", fn |-> fn, count |-> Len(vals), addr |-> start]>>
    \o [k \in 1..Len(vals) |->
          Line(start + (k - 1) * step,
               IF fn = "WriteCoils" THEN boolToInt(vals[k]) ELSE vals[k], <<>>)]

\* performOperation and the read functions: the read call of the data type
ReadRequest(c) ==
    LET addr == U16(startRef(c))
        quantity == U16(c.Count)
    IN CASE c.DataType = "0" ->
              [fn |-> "ReadCoils", args |-> <<addr, quantity>>,
               err |-> "failed to read coils", label |-> "Coils"]
         [] c.DataType = "1" ->
              [fn |-> "ReadDiscreteInputs", args |-> <<addr, quantity>>,
               err |-> "failed to read discrete inputs",
               label |-> "Discrete Inputs"]
         [] c.DataType \in {"3", "3:hex", "3:int", "3:float"} ->
              [fn |-> "ReadRegisters", args |-> <<addr, quantity, "INPUT_REGISTER">>,
               err |-> "failed to read input registers",
               label |-> "Input Registers"]
         [] c.DataType \in {"4", "4:hex", "4:int", "4:float"} ->
              [fn |-> "ReadRegisters", args |-> <<addr, quantity, "HOLDING_REGISTER">>,
               err |-> "failed to read holding registers",
               label |-> "Holding Registers"]
         [] OTHER -> [fn |-> "", args |-> <<>>, err |-> "unsupported data type",
                      label |-> ""]

\* what a successful read of n values may return: n bits, or n registers
Responses(fn, n) ==
    IF fn = "ReadRegisters"
    THEN {[k \in 1..n |-> U16(seed + k - 1)] : seed \in {1, 65535}}
    ELSE {[k \in 1..n |-> (seed + k) % 2 = 1] : seed \in {0, 1}}

\* Annotation that combines a pair at every word that has a successor
AnnotationEveryWord(c, registers, k) ==
    CASE c.DataType \in {"3:hex", "4:hex"} -> <<"hex", registers[k + 1]>>
      [] c.DataType \in {"3:int", "4:int"} ->
           IF k + 1 < Len(registers)
           THEN <<"int", CombineRead(registers[k + 1], registers[k + 2], c.BigEndian)>>
           ELSE <<>>
      [] c.DataType \in {"3:float", "4:float"} ->
           IF k + 1 < Len(registers)
           THEN <<"float", CombineReadFloat(registers[k + 1], registers[k + 2], c.BigEndian)>>
           ELSE <<>>
      [] OTHER -> <<>>

\* printRegisters: the annotation of the line of registers[i] (i from 0);
\* the i++ in the loop body does not change which elements range visits
Annotation(c, registers, k) ==
    CASE c.DataType \in {"3:hex", "4:hex"} -> <<"hex", registers[k + 1]>>
      [] c.DataType \in {"3:int", "4:int"} ->
           IF k % 2 = 0 /\ k + 1 < Len(registers)
           THEN <<"int", CombineRead(registers[k + 1], registers[k + 2], c.BigEndian)>>
           ELSE <<>>
      [] c.DataType \in {"3:float", "4:float"} ->
           IF k % 2 = 0 /\ k + 1 < Len(registers)
           THEN <<"float", CombineReadFloat(registers[k + 1], registers[k + 2], c.BigEndian)>>
           ELSE <<>>
      [] OTHER -> <<>>

\* the header line of a read
Header(label, start, c) ==
    [kind |-> "header", label |-> label, from |-> start, to |-> start + c.Count - 1]

\* printRegisters
printRegisters(c, start, registers, label) ==
    <<Header(label, start, c)>>
    \o [k \in 1..Len(registers) |->
          Line(start + k - 1, registers[k], Annotation(c, registers, k - 1))]

\* the lines readCoils and readDiscreteInputs print
printBits(c, start, bits, label) ==
    <<Header(label, start, c)>>
    \o [k \in 1..Len(bits) |-> Line(start + k - 1, boolToInt(bits[k]), <<>>)]

\* execute: printConfig when verbose, on entry
printConfig(c) ==
    IF pc = "execute" /\ c.Verbose
    THEN <<[kind |-> "config", mode |-> c.Mode, address |-> c.SlaveID,
            type |-> c.DataType, device |-> c.Device, baudrate |-> c.Baudrate,
            databits |-> c.Databits, parity |-> c.Parity,
            stopbits |-> c.Stopbits, timeout |-> c.Timeout,
            rate |-> c.PollRate]>>
    ELSE <<>>

ReadFns == {"ReadCoils", "ReadDiscreteInputs", "ReadRegisters"}

WriteFns == {"WriteCoils", "WriteRegisters", "WriteUint32s", "WriteFloat32s"}

\* the calls of `log` to one of the functions fns, in order
CallsOf(log, fns) == SelectSeq(log, LAMBDA c : c.fn \in fns)

\* execute with write values: the write operation, once
performWriteOperation ==
    /\ pc = "execute"
    /\ Len(config.WriteValues) > 0
    /\ LET w == WriteRequest(config)
           start == startRef(config)
       IN IF w.fn = ""
          THEN /\ err' = w.err
               /\ out' = out \o printConfig(config)
               /\ UNCHANGED calls
          ELSE \E vals \in w.vals, ok \in BOOLEAN :
                  /\ calls' = Append(calls, Call(w.fn, <<U16(start), vals>>, ok))
                  /\ err' = IF ok THEN "" ELSE w.err
                  /\ out' = out \o printConfig(config)
                                \o (IF ok THEN EchoLines(w.fn, start, w.step, vals)
                                    ELSE <<>>)
    /\ pc' = "close"
    /\ UNCHANGED <<nargs, i, rest, config, client>>

\* AfterRead of a loop that sleeps and polls again after a failed read
AfterReadNoError(ok, c) == IF c.PollOnce THEN "close" ELSE "sleep"

\* the poll loop after a read: the error is returned, or the loop is
\* left, or it sleeps
AfterRead(ok, c) == IF ~ok \/ c.PollOnce THEN "close" ELSE "sleep"

\* execute without write values: one iteration of the poll loop up to the
\* sleep
performOperation ==
    /\ pc \in {"execute", "poll"}
    /\ Len(config.WriteValues) = 0
    /\ Len(CallsOf(calls, ReadFns)) < MaxPolls
    /\ LET r == ReadRequest(config)
           start == startRef(config)
       IN IF r.fn = ""
          THEN /\ err' = r.err
               /\ pc' = "close"
               /\ out' = out \o printConfig(config)
               /\ UNCHANGED calls
          ELSE \E ok \in BOOLEAN :
                  /\ calls' = Append(calls, Call(r.fn, r.args, ok))
                  /\ err' = IF ok THEN "" ELSE r.err
                  /\ pc' = AfterRead(ok, config)
                  /\ IF ok
                     THEN \E data \in Responses(r.fn, r.args[2]) :
                             out' = out \o printConfig(config)
                                        \o (IF r.fn = "ReadRegisters"
                                            THEN printRegisters(config, start, data, r.label)
                                            ELSE printBits(config, start, data, r.label))
                     ELSE out' = out \o printConfig(config)
    /\ UNCHANGED <<nargs, i, rest, config, client>>

\* time.Sleep(m.config.PollRate) of the poll loop
sleep ==
    /\ pc = "sleep"
    /\ calls' = Append(calls, Call("Sleep", <<config.PollRate>>, TRUE))
    /\ pc' = "poll"
    /\ UNCHANGED <<nargs, i, rest, config, err, client, out>>

\* run that closes the session only when execute returned nil
deferCloseOnSuccess ==
    /\ pc = "close"
    /\ calls' = IF err = "" THEN Append(calls, Call("Close", <<>>, TRUE)) ELSE calls
    /\ pc' = "done"
    /\ UNCHANGED <<nargs, i, rest, config, err, client, out>>

\* run: the deferred m.client.Close() (its result is dropped), then the
\* return of what execute returned
deferClose ==
    /\ pc = "close"
    /\ calls' = Append(calls, Call("Close", <<>>, TRUE))
    /\ pc' = "done"
    /\ UNCHANGED <<nargs, i, rest, config, err, client, out>>

----------------------------------------------------------------------------
(* The program: main with a token list of at most MaxArgs tokens. *)

Init ==
    /\ nargs \in 0..MaxArgs
    /\ i = 0
    /\ rest = <<>>
    /\ config = DefaultConfig
    /\ pc = "parseArgs"
    /\ err = ""
    /\ client = NoClient
    /\ calls = <<>>
    /\ out = <<>>

Next ==
    \/ parseArgsStep
    \/ parseArgsReturn
    \/ setupClient
    \/ connect
    \/ performWriteOperation
    \/ performOperation
    \/ sleep
    \/ deferClose

Spec == Init /\ [][Next]_vars

----------------------------------------------------------------------------
(* The run from a Config handed over directly instead of parsed from       *)
(* tokens (the methods of ModbusCLI read m.config): validateConfig, then   *)
(* setupClient, connect and execute as in run.  Both word orders occur.    *)

\* validateConfig called on a Config
validateConfigStep ==
    /\ pc = "validateConfig"
    /\ IF validateConfig(config) # ""
       THEN Return(validateConfig(config))
       ELSE /\ pc' = "setupClient"
            /\ UNCHANGED err
    /\ UNCHANGED <<nargs, i, rest, config, client, calls, out>>

\* Configs around the limits of validateConfig
ValidationConfigs ==
    {[DefaultConfig EXCEPT !.Host = "host", !.Count = count, !.SlaveID = slave,
                           !.Baudrate = baud, !.Databits = databits,
                           !.Stopbits = stopbits, !.Parity = parity,
                           !.PollRate = rate, !.Timeout = timeout] :
        count \in {0, 1, 125, 126}, slave \in {-1, 0, 255, 256},
        baud \in {1199, 1200, 921600, 921601}, databits \in {6, 7, 8, 9},
        stopbits \in {0, 1, 2, 3}, parity \in {"none", "even", "odd", "mark"},
        rate \in {9, 10}, timeout \in {9, 10, 10000, 10001}}

DataTypes == {"0", "1", "3", "3:hex", "3:int", "3:float",
              "4", "4:hex", "4:int", "4:float", "9"}

\* write values: 1, 0x8000, 0xFFFF and 70000
UnitValues == {1000, 32768000, 65535000, 70000000}

\* Configs of write runs
WriteConfigs ==
    {[DefaultConfig EXCEPT !.Host = "host", !.DataType = type,
                           !.BigEndian = bigEndian, !.WriteValues = values] :
        type \in DataTypes, bigEndian \in BOOLEAN,
        values \in UNION {[1..n -> UnitValues] : n \in 1..MaxVals}}

\* Configs of read runs
ReadConfigs ==
    {[DefaultConfig EXCEPT !.Host = "host", !.DataType = type,
                           !.BigEndian = bigEndian, !.PollOnce = once,
                           !.Count = count, !.ZeroBased = zeroBased,
                           !.StartRef = ref] :
        type \in DataTypes, bigEndian \in BOOLEAN, once \in BOOLEAN,
        count \in {1, 2, 3, 4, 125}, zeroBased \in BOOLEAN, ref \in {1, 5}}

UnitInit ==
    /\ nargs = 0
    /\ i = 0
    /\ rest = <<>>
    /\ config \in ValidationConfigs \cup WriteConfigs \cup ReadConfigs
    /\ pc = "validateConfig"
    /\ err = ""
    /\ client = NoClient
    /\ calls = <<>>
    /\ out = <<>>

UnitNext ==
    \/ validateConfigStep
    \/ setupClient
    \/ connect
    \/ performWriteOperation
    \/ performOperation
    \/ sleep
    \/ deferClose

UnitSpec == UnitInit /\ [][UnitNext]_vars

----------------------------------------------------------------------------
(* Properties. *)

\* the run is past parseArgs with a Config
Parsed == pc \in {"setupClient", "connect", "execute", "poll", "sleep", "close"}
          \/ (pc = "done" /\ config # NilConfig)

\* execute has returned
Executed ==
    /\ pc \in {"close", "done"}
    /\ \E k \in DOMAIN calls : calls[k].fn = "Open" /\ calls[k].ok

\* C1: parseArgs finishes on every token list: each iteration of its token
\* loop moves the index forward or ends the loop, so that the separator
\* "--", which takes every later token as a write value, completes parsing.
C1_ParseArgsFinishes ==
    [][pc = "parseArgs" => (i' > i \/ pc' # "parseArgs")]_vars

NetworkStyle == {"tcp", "tls", "udp", "rtuovertcp", "rtuoverudp"}

\* C2: the first bare token becomes Host when the Mode in effect is
\* network-style and Device when it is rtu, and the other stays empty.
C2_TargetByModeStyle ==
    [][(/\ pc = "parseArgs" /\ pc' = "parseArgs"
        /\ config.Host = "" /\ config.Device = ""
        /\ config.Mode \in Modes
        /\ ~(config'.Host = "" /\ config'.Device = ""))
       => IF config.Mode \in NetworkStyle
          THEN config'.Host # "" /\ config'.Device = ""
          ELSE config'.Device # "" /\ config'.Host = ""]_vars

Writable == {"0", "4", "4:hex", "4:int", "4:float"}

\* C3: a write run of a writable data type that ends with success has made
\* exactly one write call, carrying all the values (one per value, or one
\* per pair for 4:int and 4:float), and no read call.
C3_WriteSucceedsOnlyWritten ==
    (/\ Executed
     /\ err = ""
     /\ Len(config.WriteValues) > 0
     /\ config.DataType \in Writable)
    => /\ Len(CallsOf(calls, WriteFns)) = 1
       /\ Len(CallsOf(calls, WriteFns)[1].args[2])
            = IF config.DataType \in {"4:int", "4:float"}
              THEN Len(config.WriteValues) \div 2
              ELSE Len(config.WriteValues)
       /\ CallsOf(calls, ReadFns) = <<>>

\* the eight constraints of validateConfig
CountOk(c) == 1 <= c.Count /\ c.Count <= 125
SlaveOk(c) == 0 <= c.SlaveID /\ c.SlaveID <= 255
BaudOk(c) == 1200 <= c.Baudrate /\ c.Baudrate <= 921600
DatabitsOk(c) == c.Databits \in {7, 8}
StopbitsOk(c) == c.Stopbits \in {1, 2}
ParityOk(c) == c.Parity \in {"none", "even", "odd"}
PollRateOk(c) == c.PollRate >= 10
TimeoutOk(c) == 10 <= c.Timeout /\ c.Timeout <= 10000

Constraints(c) ==
    <<CountOk(c), SlaveOk(c), BaudOk(c), DatabitsOk(c), StopbitsOk(c),
      ParityOk(c), PollRateOk(c), TimeoutOk(c)>>

ConstraintErrors ==
    <<"count must be between 1 and 125",
      "slave address must be between 0 and 255",
      "baudrate must be between 1200 and 921600",
      "databits must be 7 or 8",
      "stopbits must be 1 or 2",
      "parity must be none, even, or odd",
      "poll rate must be at least 10ms",
      "timeout must be between 0.01 and 10.00 seconds">>

AllEight(c) == \A k \in 1..8 : Constraints(c)[k]

\* the error of the first violated constraint
FirstViolated(c) ==
    ConstraintErrors[CHOOSE k \in 1..8 :
                        /\ ~Constraints(c)[k]
                        /\ \A j \in 1..(k - 1) : Constraints(c)[j]]

Wide32 == {"4:int", "4:float"}

\* a write value that is a 16-bit word
Is16(v) == 0 <= Trunc(v) /\ Trunc(v) < 65536

\* the k-th pattern of the write values v (k from 1): the first value of the
\* pair shifted over the second under big-endian order, the second over the
\* first under little-endian order
PairPattern(v, k, bigEndian) ==
    IF bigEndian THEN [hi |-> Trunc(v[2 * k - 1]), lo |-> Trunc(v[2 * k])]
    ELSE [hi |-> Trunc(v[2 * k]), lo |-> Trunc(v[2 * k - 1])]

Running == {"setupClient", "connect", "execute", "poll", "sleep", "close"}

Readable == {"0", "1", "3", "3:hex", "3:int", "3:float",
             "4", "4:hex", "4:int", "4:float"}

ReadErrors == {"failed to read coils", "failed to read discrete inputs",
               "failed to read input registers",
               "failed to read holding registers"}

\* the read calls and the sleeps of the run, in order
PollTrace == CallsOf(calls, ReadFns \cup {"Sleep"})

ReadRunEnded == Executed /\ Len(config.WriteValues) = 0

\* the poll loop of the claim C6
PollLoop ==
    LET t == PollTrace
        reads == CallsOf(calls, ReadFns)
    IN /\ \A k \in DOMAIN t :
            IF k % 2 = 1 THEN t[k].fn \in ReadFns
            ELSE t[k] = Call("Sleep", <<config.PollRate>>, TRUE)
       /\ \A k \in DOMAIN t :
            (t[k].fn \in ReadFns /\ ~t[k].ok)
            => k = Len(t) /\ pc \in {"close", "done"} /\ err \in ReadErrors
       /\ config.PollOnce => Len(t) <= 1
       /\ (~config.PollOnce /\ t # <<>> /\ t[Len(t)].ok)
          => pc = IF t[Len(t)].fn = "Sleep" THEN "poll" ELSE "sleep"
       /\ ReadRunEnded
          => /\ Len(reads) >= 1
             /\ IF config.PollOnce
                THEN Len(reads) = 1 /\ (reads[1].ok => err = "")
                ELSE ~reads[Len(reads)].ok

\* C6: on a read run, with PollOnce one read call is made and the run
\* succeeds if it does; without PollOnce read calls repeat with a PollRate
\* sleep between them while each succeeds; the first failed read ends the
\* loop, its error is the result, and no read follows it.
C6_ReadRun == Parsed => PollLoop

\* C6 amended: the same for the data types that name a read; for any other
\* data type no read call is made and the run fails with the
\* unsupported-data-type error.
C6_ReadRunReadable ==
    Parsed => IF config.DataType \in Readable THEN PollLoop
              ELSE /\ CallsOf(calls, ReadFns) = <<>>
                   /\ ReadRunEnded => err = "unsupported data type"

\* C6 witness: a read, a sleep and a failed read end the run with the error
\* of the read.
C6_Witness ==
    /\ pc = "done"
    /\ config # NilConfig
    /\ ~config.PollOnce
    /\ Len(PollTrace) = 3
    /\ PollTrace[1].fn \in ReadFns /\ PollTrace[1].ok
    /\ PollTrace[2].fn = "Sleep"
    /\ PollTrace[3].fn \in ReadFns /\ ~PollTrace[3].ok
    /\ err \in ReadErrors

\* C7: the session is opened at most once, and only with a parsed and valid
\* Config; SetUnitId(SlaveID) and SetEncoding follow a successful Open before
\* any read or write; no read or write comes before Open or after Close; a
\* run that opened the session has closed it when it ends.
C7_SessionProtocol ==
    LET idx(fns) == {k \in DOMAIN calls : calls[k].fn \in fns}
        opened == calls # <<>> /\ calls[1].fn = "Open" /\ calls[1].ok
    IN /\ idx({"Open"}) \subseteq {1}
       /\ calls # <<>> =>
            /\ calls[1].fn = "Open"
            /\ config # NilConfig
            /\ AllEight(config)
            /\ pc \notin {"parseArgs", "validateConfig", "setupClient", "exit"}
       /\ (calls # <<>> /\ ~calls[1].ok) => Len(calls) = 1
       /\ opened =>
            /\ Len(calls) >= 3
            /\ calls[2] = Call("SetUnitId", <<config.SlaveID>>, TRUE)
            /\ calls[3].fn = "SetEncoding"
       /\ \A k \in idx(ReadFns \cup WriteFns) :
            /\ k > 3
            /\ \A j \in idx({"Close"}) : k < j
       /\ Cardinality(idx({"Close"})) <= 1
       /\ (pc = "done" /\ opened) => calls[Len(calls)].fn = "Close"
       /\ idx({"Close"}) # {} => pc = "done"

\* C7 witness: a run whose read failed has closed the session it opened.
C7_Witness ==
    /\ pc = "done"
    /\ err = "failed to read holding registers"
    /\ Len(calls) = 5
    /\ calls[4].fn = "ReadRegisters"
    /\ calls[5].fn = "Close"

\* C8: the word order bound to the session is the one BigEndian selects:
\* most-significant word first when it is true, least-significant word first
\* when it is false.
C8_WordOrderFollowsBigEndian ==
    \A k \in DOMAIN calls :
        calls[k].fn = "SetEncoding"
        => calls[k].args[2] = IF config.BigEndian THEN "HIGH_WORD_FIRST"
                              ELSE "LOW_WORD_FIRST"

\* the registers at [i] and [i+1] that hold the pattern p under the order
Words(p, bigEndian) == IF bigEndian THEN <<p.hi, p.lo>> ELSE <<p.lo, p.hi>>

\* math.Float32bits: the pattern of a float32
Float32bits(f) ==
    [hi |-> f.sign * 32768 + f.exp * 128 + f.frac \div 65536,
     lo |-> f.frac % 65536]

Wide == {"3:int", "3:float", "4:int", "4:float"}

\* C10: a read call for a wide data type is made only with an even Count.
C10_WideCountEven ==
    \A k \in DOMAIN calls :
        (calls[k].fn \in ReadFns /\ config.DataType \in Wide)
        => config.Count % 2 = 0

\* the addresses the start reference r designates: r itself as a 0-based
\* address with the zero-based flag, the 1-based reference r otherwise
Designated(c) ==
    IF c.ZeroBased THEN {U16(c.StartRef)}
    ELSE {U16(c.StartRef), U16(c.StartRef - 1)}

\* C11: a read or write call of a run given a start reference with -r starts
\* at the address the reference designates, with and without the zero-based
\* flag.
C11_StartFollowsReference ==
    \A k \in DOMAIN calls :
        (calls[k].fn \in ReadFns \cup WriteFns
         /\ config.StartRef # DefaultConfig.StartRef)
        => calls[k].args[1] \in Designated(config)

\* the values of the recognised option tokens that read as numbers (-1)
OptionValues ==
    {ParseFloat(t).val : t \in {o \in FlagOptions \cup ValuedOptions :
                                   ~ParseFloat(o).err}}

\* C12: a step of parseArgs that takes the bare tokens after the target as
\* write values takes no recognised option token as a write value: an option
\* that follows the write values stays an option.
C12_OptionsAfterWriteValues ==
    [][(/\ pc = "parseArgs" /\ pc' = "parseArgs"
        /\ ~(config.Host = "" /\ config.Device = "")
        /\ Len(config.WriteValues) = 0
        /\ rest = <<>> /\ rest' = <<>>)
       => \A k \in DOMAIN config'.WriteValues :
             config'.WriteValues[k] \notin OptionValues]_vars

\* the parity a descriptor carries for a Parity of the Config
ParityCode(parity) ==
    CASE parity = "none" -> 0
      [] parity = "even" -> 1
      [] parity = "odd"  -> 2

\* C13: setupClient gives each of the six modes its descriptor and fails
\* with the unsupported-mode error and no descriptor for any other Mode; the
\* descriptor of rtu carries Device, Timeout, Baudrate, Databits, Stopbits
\* and Parity, that of rtuovertcp and rtuoverudp Host:Port, Timeout and
\* Baudrate, that of tcp, tls and udp Host:Port and Timeout.
C13_SessionDescriptor ==
    /\ (pc \in {"connect", "execute", "poll", "sleep", "close"})
       => /\ config.Mode \in Modes
          /\ client # NoClient
          /\ client.Timeout = config.Timeout
          /\ IF config.Mode = "rtu"
             THEN /\ client.url = <<"rtu", config.Device>>
                  /\ client.Speed = config.Baudrate
                  /\ client.DataBits = config.Databits
                  /\ client.StopBits = config.Stopbits
                  /\ client.Parity = ParityCode(config.Parity)
             ELSE /\ client.url = <<config.Mode, config.Host, config.Port>>
                  /\ config.Mode \in {"rtuovertcp", "rtuoverudp"}
                     => client.Speed = config.Baudrate
    /\ (pc = "done" /\ err = "unsupported mode") => client = NoClient
    /\ (Parsed /\ config.Mode \notin Modes /\ pc # "setupClient")
       => pc = "done" /\ err = "unsupported mode" /\ client = NoClient

\* the address lines printed so far
AddressLines == SelectSeq(out, LAMBDA l : l.kind = "line")

\* the wide value of the words first (at the even offset) and second
WideValue(c, first, second) ==
    LET p == IF c.BigEndian THEN [hi |-> first, lo |-> second]
             ELSE [hi |-> second, lo |-> first]
    IN IF c.DataType \in {"3:int", "4:int"} THEN <<"int", Int32(p)>>
       ELSE <<"float", Float32frombits(p)>>

C15_AlwaysBigEndian ==
    /\ config # NilConfig => config.BigEndian
    /\ \A k \in DOMAIN calls :
          calls[k].fn = "SetEncoding" => calls[k].args[1] = "BIG_ENDIAN"

\* C15 witness: the run of the tokens -B and host (in either order), whose
\* Config is the defaults with the target.
C15_Witness ==
    /\ nargs = 2
    /\ pc = "execute"
    /\ config = [DefaultConfig EXCEPT !.Host = "host"]
    /\ \E k \in DOMAIN calls : calls[k].fn = "SetEncoding"

====
